---- MODULE Spec2Model ----
(***************************************************************************)
(* Webhook relay: source-control events (githubNotification), board events *)
(* (trelloNotification) and board registration (registerTrelloBoard).      *)
(* One inbound request is followed from its arrival to its response; the   *)
(* handlers are split at their await points (the outbound HTTP calls).     *)
(***************************************************************************)
EXTENDS Integers, Sequences, FiniteSets, TLC

VARIABLES
  testMode,      \* process.env.NODE_ENV === 'test'                (config.js isTestMode)
  githubSecret,  \* GITHUB_SECRET / GITHUB_SECRET_TEST, "" = unset  (config.js getGithubSecret)
  trelloApiKey,  \* TRELLO_API_KEY / TRELLO_API_KEY_TEST, "" = unset (config.js getTrelloApiKey)
  req,           \* the inbound request being handled
  pc,            \* position of the handler of req
  res,           \* the response sent for req (status 0: none yet)
  calls,         \* outbound HTTP calls issued while handling req, in order
  answers,       \* how each settled outbound call ended, in the order of calls
  logs,          \* console.error / console.warn entries written while handling req
  browser,       \* the registration flow the user's browser is in (its URL state)
  boardData      \* boardResponse.data.id of the board GET of req ("" : none received)

vars == <<testMode, githubSecret, trelloApiKey, req, pc, res, calls, answers, logs, browser, boardData>>

config == <<testMode, githubSecret, trelloApiKey>>

(***************************************************************************)
(* Values shared by the handlers                                           *)
(***************************************************************************)
Absent == "<absent>"          \* a header, query parameter or property that is not there

NoReq == [endpoint |-> "none"]

NoRes == [status |-> 0, body |-> "<none>"]

Has(obj, key) == key \in DOMAIN obj

Send(status, body) == [status |-> status, body |-> body]

Json(status, body, discordResponse) ==
  [status |-> status, body |-> body, discord_response |-> discordResponse]

\* The value `new Date().toISOString()` yields; the clock is not modelled.
Now == "<now>"

DiscordWebhookUrl == "https://discord.example/api/webhooks/1/t"

(***************************************************************************)
(* Request bodies.  A raw body is the byte string on the wire: a JSON      *)
(* value in some byte-level formatting.  The platform's body parser keeps  *)
(* the value and drops the formatting; JSON.stringify writes the value     *)
(* back in its one compact formatting.                                     *)
(***************************************************************************)
Formattings == {"compact", "spaced"}

JSONparse(raw) == raw.value

JSONstringify(value) == [value |-> value, fmt |-> "compact"]

(***************************************************************************)
(* Signatures.  HMAC-SHA256 is modelled as collision free: the digest of   *)
(* (secret, bytes) is the pair itself.  A header value is a string of      *)
(* `len` bytes whose content is named by (key, bytes).                     *)
(***************************************************************************)
HexDigestLen == 64

PrefixLen == 7      \* "sha256="

InvalidHeaderLen == 24   \* 'sha256=invalid_signature'

\* 'sha256=' + hmac.update(bytes).digest('hex')
hmacDigest(secret, bytes) ==
  [present |-> TRUE, len |-> PrefixLen + HexDigestLen, key |-> secret, bytes |-> bytes]

\* no x-hub-signature-256 header
NoSignature ==
  [present |-> FALSE, len |-> 0, key |-> "", bytes |-> [value |-> [zen |-> ""], fmt |-> "compact"]]

\* createSignature of the test suite: what a sender signing `bytes` sends.
createSignature(bytes, secret) == hmacDigest(secret, bytes)

\* crypto.timingSafeEqual: throws RangeError unless both buffers have the
\* same byte length; otherwise compares contents.
timingSafeEqual(a, b) ==
  IF a.len # b.len THEN "throw"
  ELSE IF a = b THEN "true" ELSE "false"

\* the bytes the code feeds to the HMAC
SignedBytes(r) == JSONstringify(JSONparse(r.rawBody))

\* verifyGitHubSignature(req, secret): "true" | "false" | "throw"
verifyGitHubSignature(r, secret) ==
  IF secret = "" THEN "true"
  ELSE IF ~r.signature.present THEN "false"
  ELSE timingSafeEqual(r.signature, hmacDigest(secret, SignedBytes(r)))

verifyGitHubSignatureLogs(r, secret) ==
  IF secret = "" THEN <<"warn: No GitHub webhook secret provided">>
  ELSE IF ~r.signature.present THEN <<"error: No signature found in GitHub webhook request">>
  ELSE <<>>

(***************************************************************************)
(* formatGitHubMessage(payload, eventType).  A payload is a record that    *)
(* holds the properties that are present; reading a property of a missing  *)
(* object is a TypeError.  The result is [throws, card].                   *)
(***************************************************************************)
MaxFieldLen == 1000

KeptLen == 997

MaxShown == 5

ShortIdLen == 7

Min(a, b) == IF a < b THEN a ELSE b

\* s.substring(0, n)
Substring0(s, n) == SubSeq(s, 1, Min(n, Len(s)))

\* variant: the first 1000 characters are kept before the dots
Truncate_keepAll(s) == IF Len(s) > MaxFieldLen THEN Substring0(s, MaxFieldLen) \o "..." ELSE s

\* body.length > 1000 ? body.substring(0, 997) + "..." : body
Truncate(s) == IF Len(s) > MaxFieldLen THEN Substring0(s, KeptLen) \o "..." ELSE s

\* ref.replace("refs/heads/", "") where the pattern leads the string; a ref
\* that does not start with it is left as it is (refs used here hold the
\* pattern at most at their head).
StripHeads(ref) ==
  IF Len(ref) >= 11 /\ SubSeq(ref, 1, 11) = "refs/heads/"
  THEN SubSeq(ref, 12, Len(ref)) ELSE ref

Threw == [throws |-> TRUE, card |-> [title |-> "<none>"]]

Returned(card) == [throws |-> FALSE, card |-> card]

GitHubGreen == 3056719     \* 0x2EA44F

IssueOrange == 15307861    \* 0xE99455

GitHubEmbed(payload) ==
  [title |-> "", description |-> "", url |-> "", color |-> GitHubGreen,
   timestamp |-> Now,
   footer |-> [text |-> "GitHub",
               icon_url |-> "https://github.githubassets.com/assets/GitHub-Mark-ea2971cee799.png"],
   author |-> [name |-> IF Has(payload, "sender") THEN payload.sender.login ELSE "Unknown",
               url |-> IF Has(payload, "sender") THEN payload.sender.html_url ELSE "",
               icon_url |-> IF Has(payload, "sender") THEN payload.sender.avatar_url ELSE ""],
   fields |-> <<>>]

\* variant: the field is named by the whole commit id
CommitField_fullId(commit) ==
  [name |-> commit.id,
   value |-> "[" \o commit.message[1] \o "](" \o commit.url \o ") - " \o commit.author.name]

CommitField(commit) ==
  [name |-> Substring0(commit.id, ShortIdLen),
   value |-> "[" \o commit.message[1] \o "](" \o commit.url \o ") - " \o commit.author.name]

CommitWellFormed(commit) ==
  Has(commit, "id") /\ Has(commit, "message") /\ Has(commit, "author")

CommitFields(commits) == [i \in 1..Len(commits) |-> CommitField(commits[i])]

FormatPush(payload, embed) ==
  IF ~(Has(payload, "ref") /\ Has(payload, "repository") /\ Has(payload, "commits"))
  THEN Threw
  ELSE
    LET commits == SubSeq(payload.commits, 1, Min(MaxShown, Len(payload.commits)))
        n == Len(payload.commits)
    IN IF \E i \in 1..Len(commits) : ~CommitWellFormed(commits[i]) THEN Threw
       ELSE Returned(
         [embed EXCEPT
            !.title = "[" \o payload.repository.name \o "] Push to " \o StripHeads(payload.ref),
            !.url = IF Has(payload, "compare") THEN payload.compare ELSE Absent,
            !.description = IF n > 0 THEN ToString(n) \o " commit(s) pushed" ELSE "",
            !.fields = IF n = 0 THEN <<>>
                       ELSE CommitFields(commits) \o
                            (IF n > MaxShown
                             THEN <<[name |-> "...",
                                     value |-> ToString(n - MaxShown) \o " more commits not shown"]>>
                             ELSE <<>>)])

Link(number, title, url) == "[#" \o ToString(number) \o ": " \o title \o "](" \o url \o ")"

BodyField(name, obj) ==
  IF Has(obj, "body") /\ obj.body # ""
  THEN <<[name |-> name, value |-> Truncate(obj.body)]>> ELSE <<>>

FormatPullRequest(payload, embed) ==
  IF ~(Has(payload, "repository") /\ Has(payload, "pull_request")) THEN Threw
  ELSE LET pr == payload.pull_request IN
    Returned(
      [embed EXCEPT
         !.title = "[" \o payload.repository.name \o "] Pull Request " \o
                   (IF Has(payload, "action") THEN payload.action ELSE "undefined"),
         !.url = pr.html_url,
         !.description = Link(pr.number, pr.title, pr.html_url),
         !.fields = <<[name |-> "State", value |-> pr.state, inline |-> TRUE],
                      [name |-> "Merged", value |-> IF pr.merged THEN "Yes" ELSE "No",
                       inline |-> TRUE]>> \o BodyField("Description", pr)])

FormatIssues(payload, embed) ==
  IF ~(Has(payload, "repository") /\ Has(payload, "issue")) THEN Threw
  ELSE LET issue == payload.issue IN
    Returned(
      [embed EXCEPT
         !.title = "[" \o payload.repository.name \o "] Issue " \o
                   (IF Has(payload, "action") THEN payload.action ELSE "undefined"),
         !.url = issue.html_url,
         !.description = Link(issue.number, issue.title, issue.html_url),
         !.color = IssueOrange,
         !.fields = BodyField("Description", issue)])

FormatIssueComment(payload, embed) ==
  IF ~(Has(payload, "repository") /\ Has(payload, "issue") /\ Has(payload, "comment"))
  THEN Threw
  ELSE LET issue == payload.issue
           comment == payload.comment IN
    IF ~Has(comment, "user") THEN Threw
    ELSE Returned(
      [embed EXCEPT
         !.title = "[" \o payload.repository.name \o "] Comment on issue #" \o
                   ToString(issue.number),
         !.url = comment.html_url,
         !.description = comment.user.login \o " commented on " \o
                         Link(issue.number, issue.title, issue.html_url),
         !.fields = BodyField("Comment", comment)])

FormatOther(payload, embed, eventType) ==
  IF ~Has(payload, "repository") THEN Threw
  ELSE Returned(
    [embed EXCEPT
       !.title = "[" \o payload.repository.name \o "] " \o eventType \o " event received",
       !.description = "Unsupported event type"])

formatGitHubMessage(payload, eventType) ==
  LET embed == GitHubEmbed(payload) IN
  CASE eventType = "push" -> FormatPush(payload, embed)
    [] eventType = "pull_request" -> FormatPullRequest(payload, embed)
    [] eventType = "issues" -> FormatIssues(payload, embed)
    [] eventType = "issue_comment" -> FormatIssueComment(payload, embed)
    [] OTHER -> FormatOther(payload, embed, eventType)

(***************************************************************************)
(* formatTrelloMessage(data): [throws, filtered, card].  `filtered` stands *)
(* for the null the function returns for the action types it skips.        *)
(***************************************************************************)
\* variant: check-item state changes are relayed
filteredTypes_short ==
  {"createCheckItem", "updateCheckItem", "addAttachmentToCard", "addChecklistToCard"}

filteredTypes ==
  {"createCheckItem", "updateCheckItem", "addAttachmentToCard",
   "addChecklistToCard", "updateCheckItemStateOnCard"}

TrelloBlue == 31167     \* 0x0079BF

\* `${obj.key}` in a template string: a missing property prints as "undefined"
Prop(obj, key) == IF Has(obj, key) THEN obj[key] ELSE "undefined"

\* data.model?.url || ""
ModelUrlOrEmpty(data) ==
  IF Has(data, "model") /\ Has(data.model, "url") THEN data.model.url ELSE ""

TrelloEmbed(data) ==
  [title |-> "", description |-> "", url |-> ModelUrlOrEmpty(data), color |-> TrelloBlue,
   timestamp |-> Now,
   footer |-> [text |-> "Trello",
               icon_url |-> "https://d2k1ftgv7pobq7.cloudfront.net/meta/u/res/images/trello-header-logos/76ceb1faa939ede03abacb6efacdde16/trello-logo-blue.svg"],
   fields |-> <<>>]

TrelloThrew == [throws |-> TRUE, filtered |-> FALSE, card |-> [title |-> "<none>"]]

TrelloNull == [throws |-> FALSE, filtered |-> TRUE, card |-> [title |-> "<none>"]]

TrelloReturned(card) == [throws |-> FALSE, filtered |-> FALSE, card |-> card]

\* new Date(due).toLocaleString(), or "None" for a null/empty due date
DueText(obj) ==
  IF Has(obj, "due") /\ obj.due # "" THEN "date(" \o obj.due \o ")" ELSE "None"

\* "[<card name>](<board url>)"; reads action.data.card.name and data.model.url
CardLinkReadable(data) ==
  Has(data.action, "data") /\ Has(data.action.data, "card") /\ Has(data, "model")

CardLink(data) ==
  "[" \o Prop(data.action.data.card, "name") \o "](" \o Prop(data.model, "url") \o ")"

InlineField(name, value) == [name |-> name, value |-> value, inline |-> TRUE]

\* variant: the due-date change is looked for before the list move
FormatUpdateCard_dueFirst(data, embed, memberName) ==
  IF ~Has(data.action, "data") THEN TrelloThrew
  ELSE LET d == data.action.data IN
    IF ~CardLinkReadable(data) THEN TrelloThrew
    ELSE IF Has(d, "old") /\ Has(d.old, "due") THEN
      TrelloReturned(
        [embed EXCEPT
           !.title = "Due Date Changed",
           !.description = memberName \o " updated due date for card " \o CardLink(data),
           !.fields = <<InlineField("From", DueText(d.old)),
                        InlineField("To", DueText(d.card))>>])
    ELSE IF Has(d, "listBefore") /\ Has(d, "listAfter") THEN
      TrelloReturned(
        [embed EXCEPT
           !.title = "Card Moved",
           !.description = memberName \o " moved card " \o CardLink(data),
           !.fields = <<InlineField("From", Prop(d.listBefore, "name")),
                        InlineField("To", Prop(d.listAfter, "name"))>>])
    ELSE TrelloReturned(
        [embed EXCEPT
           !.title = "Card Updated",
           !.description = memberName \o " updated card " \o CardLink(data)])

FormatUpdateCard(data, embed, memberName) ==
  IF ~Has(data.action, "data") THEN TrelloThrew
  ELSE LET d == data.action.data IN
    IF Has(d, "listBefore") /\ Has(d, "listAfter") THEN
      IF ~CardLinkReadable(data) THEN TrelloThrew
      ELSE TrelloReturned(
        [embed EXCEPT
           !.title = "Card Moved",
           !.description = memberName \o " moved card " \o CardLink(data),
           !.fields = <<InlineField("From", Prop(d.listBefore, "name")),
                        InlineField("To", Prop(d.listAfter, "name"))>>])
    ELSE IF Has(d, "old") /\ Has(d.old, "due") THEN
      IF ~CardLinkReadable(data) THEN TrelloThrew
      ELSE TrelloReturned(
        [embed EXCEPT
           !.title = "Due Date Changed",
           !.description = memberName \o " updated due date for card " \o CardLink(data),
           !.fields = <<InlineField("From", DueText(d.old)),
                        InlineField("To", DueText(d.card))>>])
    ELSE
      IF ~CardLinkReadable(data) THEN TrelloThrew
      ELSE TrelloReturned(
        [embed EXCEPT
           !.title = "Card Updated",
           !.description = memberName \o " updated card " \o CardLink(data)])

FormatMemberChange(data, embed, memberName, title, verb, prep) ==
  IF ~(Has(data.action, "data") /\ Has(data.action.data, "member")) THEN TrelloThrew
  ELSE IF ~CardLinkReadable(data) THEN TrelloThrew
  ELSE TrelloReturned(
    [embed EXCEPT
       !.title = title,
       !.description = memberName \o verb \o Prop(data.action.data.member, "name") \o
                       prep \o CardLink(data)])

formatTrelloMessage(data) ==
  IF ~Has(data, "action") \/ ~Has(data.action, "type") \/ data.action.type = ""
  THEN TrelloReturned(
         [TrelloEmbed(data) EXCEPT !.title = "Trello Activity",
                                   !.description = "Unrecognized Trello event"])
  ELSE IF data.action.type \in filteredTypes THEN TrelloNull
  ELSE
    LET action == data.action
        actionType == action.type
        embed == TrelloEmbed(data)
        memberName == IF Has(action, "memberCreator")
                      THEN Prop(action.memberCreator, "fullName") ELSE "Unknown"
    IN
    CASE actionType = "createCard" ->
           IF ~CardLinkReadable(data) THEN TrelloThrew
           ELSE TrelloReturned(
             [embed EXCEPT
                !.title = "Card Created",
                !.description = memberName \o " created card " \o CardLink(data),
                !.fields = IF Has(action.data, "list")
                           THEN <<InlineField("List", Prop(action.data.list, "name"))>>
                           ELSE <<>>])
      [] actionType = "updateCard" -> FormatUpdateCard(data, embed, memberName)
      [] actionType = "commentCard" ->
           IF ~CardLinkReadable(data) THEN TrelloThrew
           ELSE TrelloReturned(
             [embed EXCEPT
                !.title = "Comment Added",
                !.description = memberName \o " commented on card " \o CardLink(data),
                !.fields = IF Has(action.data, "text") /\ action.data.text # ""
                           THEN <<[name |-> "Comment", value |-> Truncate(action.data.text)]>>
                           ELSE <<>>])
      [] actionType = "addMemberToCard" ->
           FormatMemberChange(data, embed, memberName, "Member Added to Card",
                              " added ", " to card ")
      [] actionType = "removeMemberFromCard" ->
           FormatMemberChange(data, embed, memberName, "Member Removed from Card",
                              " removed ", " from card ")
      [] actionType = "addLabelToCard" ->
           IF ~CardLinkReadable(data) THEN TrelloThrew
           ELSE TrelloReturned(
             [embed EXCEPT
                !.title = "Label Added",
                !.description = memberName \o " added label to card " \o CardLink(data),
                !.fields = IF Has(action.data, "label")
                           THEN <<InlineField("Label",
                                    IF Has(action.data.label, "name") /\ action.data.label.name # ""
                                    THEN action.data.label.name
                                    ELSE Prop(action.data.label, "color"))>>
                           ELSE <<>>])
      [] OTHER ->
           TrelloReturned(
             [embed EXCEPT
                !.title = "Trello Activity",
                !.description = memberName \o " performed action: " \o actionType])

(***************************************************************************)
(* sendDiscordMessage(webhookUrl, embed): one axios.post of the envelope;  *)
(* the handler is suspended until the chat endpoint answers.               *)
(***************************************************************************)
isTestMode == testMode

Envelope(embed) == [embeds |-> <<embed>>]

DiscordPost(webhookUrl, embed) ==
  [to |-> "discord", method |-> "POST", url |-> webhookUrl, payload |-> Envelope(embed)]

\* what the chat endpoint of the test suite answers: the request, echoed
DiscordEcho(payload) == [success |-> TRUE, echo |-> payload]

\* variant: a failed POST is swallowed outside test mode too
sendDiscordMessage_swallow(call, ok) ==
  [throws |-> FALSE, data |-> DiscordEcho(call.payload),
   logs |-> IF ok THEN <<>> ELSE <<"error: Error sending Discord message">>]

\* The outcome of sendDiscordMessage once the POST has completed (ok) or failed.
\* In the catch block `payload` is out of scope (it is a const of the try block),
\* so building the mock response in test mode raises a ReferenceError.
sendDiscordMessage(call, ok) ==
  IF ok THEN [throws |-> FALSE, data |-> DiscordEcho(call.payload), logs |-> <<>>]
  ELSE IF isTestMode
    THEN [throws |-> TRUE, data |-> DiscordEcho(call.payload),
          logs |-> <<"error: Error sending Discord message to " \o call.url>>]
    ELSE [throws |-> TRUE, data |-> DiscordEcho(call.payload),
          logs |-> <<"error: Error sending Discord message">>]

(***************************************************************************)
(* handleWebhook (source-control events) and its wrapper githubNotification*)
(***************************************************************************)
\* variant: one more event type is relayed
supportedEvents_loose ==
  {"push", "pull_request", "issues", "issue_comment", "unsupported_event"}

supportedEvents == {"push", "pull_request", "issues", "issue_comment"}

Outcome(next, response, newCalls, newLogs) ==
  [pc |-> next, res |-> response, calls |-> newCalls, logs |-> newLogs]

\* variant: only GET is turned away
MethodIsPost_notGet(r) == r.method # "GET"

MethodIsPost(r) == r.method = "POST"

\* variant: test mode does not switch the signature check off
VerificationOn_secretOnly(secret) == secret # ""

\* secret && !config.isTestMode(): whether the signature is looked at
VerificationOn(secret) == secret # "" /\ ~isTestMode

\* variant: a missing event-type header is not noticed
NoEventType_never(r) == FALSE

\* !eventType, for the x-github-event header
NoEventType(r) == r.eventType = Absent \/ r.eventType = ""

\* handleWebhook up to its first await or its response; pc "throw" when an
\* exception leaves the function
handleWebhook(r, discordWebhookUrl, secret) ==
  IF ~MethodIsPost(r)
  THEN Outcome("responded", Send(405, "Method not allowed"), <<>>, <<>>)
  ELSE IF VerificationOn(secret) /\ verifyGitHubSignature(r, secret) = "throw"
  THEN Outcome("throw", NoRes, <<>>, verifyGitHubSignatureLogs(r, secret))
  ELSE IF VerificationOn(secret) /\ verifyGitHubSignature(r, secret) = "false"
  THEN Outcome("responded", Send(403, "Invalid signature"), <<>>,
               verifyGitHubSignatureLogs(r, secret))
  ELSE IF NoEventType(r)
  THEN Outcome("responded", Send(400, "No event type specified"), <<>>, <<>>)
  ELSE IF r.eventType \in supportedEvents
  THEN LET formatted == formatGitHubMessage(JSONparse(r.rawBody), r.eventType) IN
       IF formatted.throws
       THEN Outcome("responded", Send(500, "Error processing webhook"), <<>>,
                    <<"error: Error processing " \o r.eventType \o " event">>)
       ELSE Outcome("gh_await_send", NoRes,
                    <<DiscordPost(discordWebhookUrl, formatted.card)>>, <<>>)
  ELSE Outcome("responded", Send(202, "Event type not processed"), <<>>, <<>>)

\* variant: a failed delivery is attempted once more
handleWebhookResume_retry(r, sent) ==
  IF sent.throws /\ Len(calls) < 2
  THEN Outcome("gh_await_send", NoRes, <<calls[Len(calls)]>>, sent.logs)
  ELSE IF sent.throws
  THEN Outcome("responded", Send(500, "Error processing webhook"), <<>>, sent.logs)
  ELSE Outcome("responded", Send(200, "Webhook processed successfully"), <<>>, <<>>)

\* the rest of handleWebhook, once sendDiscordMessage has settled
handleWebhookResume(r, sent) ==
  IF sent.throws
  THEN Outcome("responded", Send(500, "Error processing webhook"), <<>>,
               sent.logs \o <<"error: Error processing " \o r.eventType \o " event">>)
  ELSE IF isTestMode
  THEN Outcome("responded", Json(200, "Webhook processed successfully", sent.data), <<>>, <<>>)
  ELSE Outcome("responded", Send(200, "Webhook processed successfully"), <<>>, <<>>)

\* variant: the catch answers without writing to the log
githubNotification_silent(r) ==
  LET o == handleWebhook(r, DiscordWebhookUrl, githubSecret) IN
  IF o.pc = "throw"
  THEN Outcome("responded", Send(500, "Error processing webhook"), o.calls, o.logs)
  ELSE o

\* githubNotification: the try/catch around handleWebhook
githubNotification(r) ==
  LET o == handleWebhook(r, DiscordWebhookUrl, githubSecret) IN
  IF o.pc = "throw"
  THEN Outcome("responded", Send(500, "Error processing webhook"), o.calls,
               o.logs \o <<"error: Error processing GitHub webhook">>)
  ELSE o

(***************************************************************************)
(* Requests the environment may send                                       *)
(***************************************************************************)
MaxCommits == 6

Methods == {"GET", "HEAD", "POST", "PUT"}

Secrets == {"", "test-github-secret"}

Sender ==
  [login |-> "testuser", html_url |-> "https://github.com/testuser",
   avatar_url |-> "https://avatars.githubusercontent.com/u/12345"]

Repository == [name |-> "test-repo"]

Commit(i) ==
  [id |-> ToString(i) \o "234567890abcdef", message |-> <<"Commit " \o ToString(i), "details">>,
   url |-> "https://github.com/user/test-repo/commit/" \o ToString(i),
   author |-> [name |-> "Test User"]]

PushPayload(n) ==
  [ref |-> "refs/heads/main", repository |-> Repository, sender |-> Sender,
   compare |-> "https://github.com/user/test-repo/compare/abc...def",
   commits |-> [i \in 1..n |-> Commit(i)]]

PrPayload(text) ==
  [action |-> "opened", repository |-> Repository, sender |-> Sender,
   pull_request |-> [number |-> 123, html_url |-> "https://github.com/user/test-repo/pull/123",
                     title |-> "Test Pull Request", body |-> text, state |-> "open",
                     merged |-> FALSE]]

IssuePayload(text) ==
  [action |-> "opened", repository |-> Repository, sender |-> Sender,
   issue |-> [number |-> 7, html_url |-> "https://github.com/user/test-repo/issues/7",
              title |-> "Test Issue", body |-> text]]

CommentPayload(text) ==
  [action |-> "created", repository |-> Repository,
   issue |-> [number |-> 7, html_url |-> "https://github.com/user/test-repo/issues/7",
              title |-> "Test Issue", body |-> "issue text"],
   comment |-> [html_url |-> "https://github.com/user/test-repo/issues/7#c1",
                user |-> [login |-> "commenter"], body |-> text]]

PingPayload == [zen |-> "Keep it logically awesome."]

RECURSIVE Repeat(_, _)
Repeat(s, n) == IF n = 0 THEN "" ELSE s \o Repeat(s, n - 1)

\* a text of exactly 1000 characters, and one of 1001
ThousandChars == Repeat("0123456789", 100)

Texts == {"", "This is a test", ThousandChars, ThousandChars \o "X"}

\* the record without one of its properties
Without(obj, key) == [k \in DOMAIN obj \ {key} |-> obj[k]]

\* payloads whose pull request, issue or comment has no body property
BodilessPayloads ==
  {[PrPayload("") EXCEPT !.pull_request = Without(@, "body")],
   [IssuePayload("") EXCEPT !.issue = Without(@, "body")],
   [CommentPayload("") EXCEPT !.comment = Without(@, "body")]}

GhPayloads ==
  {PushPayload(n) : n \in 0..MaxCommits}
  \cup {PrPayload(t) : t \in Texts} \cup {IssuePayload(t) : t \in Texts}
  \cup {CommentPayload(t) : t \in Texts} \cup {PingPayload} \cup BodilessPayloads

RawBodies == {[value |-> v, fmt |-> f] : v \in GhPayloads, f \in Formattings}

EventTypes ==
  {"push", "pull_request", "issues", "issue_comment", "unsupported_event", Absent}

\* x-hub-signature-256 values: none, the sender's signature over the raw bytes,
\* the signature over the re-serialized body, a well-formed digest under
\* another key, and 'sha256=invalid_signature'
SignatureHeaders(raw) ==
  {NoSignature, createSignature(raw, "test-github-secret"),
   createSignature(JSONstringify(JSONparse(raw)), "test-github-secret"),
   createSignature(raw, "other-secret"),
   [present |-> TRUE, len |-> InvalidHeaderLen, key |-> "", bytes |-> raw]}

GithubRequests ==
  UNION {
    {[endpoint |-> "githubNotification", method |-> m, eventType |-> e,
      signature |-> sg, rawBody |-> raw] :
       m \in Methods, e \in EventTypes, sg \in SignatureHeaders(raw)} :
    raw \in RawBodies}

(***************************************************************************)
(* handleTrelloEvent (board events) and its wrapper trelloNotification     *)
(***************************************************************************)
\* !req.body || !req.body.action
LacksAction(r) == ~r.hasBody \/ ~Has(r.body, "action")

\* handleTrelloEvent up to its first await or its response
handleTrelloEvent(r, discordWebhookUrl) ==
  IF ~isTestMode /\ LacksAction(r)
  THEN Outcome("responded", Send(400, "Invalid Trello payload"), <<>>, <<>>)
  ELSE LET embed == IF r.hasBody THEN formatTrelloMessage(r.body) ELSE TrelloThrew IN
    IF embed.throws
    THEN Outcome("responded", Send(500, "Error processing Trello event"), <<>>,
                 <<"error: Error processing Trello event">>)
    ELSE IF embed.filtered
    THEN Outcome("responded", Send(200, "Trello event filtered (notification not sent)"),
                 <<>>, <<>>)
    ELSE Outcome("tr_await_send", NoRes, <<DiscordPost(discordWebhookUrl, embed.card)>>, <<>>)

\* the rest of handleTrelloEvent, once sendDiscordMessage has settled
handleTrelloEventResume(r, sent) ==
  IF sent.throws
  THEN Outcome("responded", Send(500, "Error processing Trello event"), <<>>,
               sent.logs \o <<"error: Error processing Trello event">>)
  ELSE IF isTestMode
  THEN Outcome("responded", Json(200, "Trello event processed successfully", sent.data),
               <<>>, <<>>)
  ELSE Outcome("responded", Send(200, "Trello event processed successfully"), <<>>, <<>>)

\* variant: only HEAD is answered at once
trelloNotification_headOnly(r) ==
  IF r.method = "HEAD" THEN Outcome("responded", Send(200, ""), <<>>, <<>>)
  ELSE handleTrelloEvent(r, DiscordWebhookUrl)

\* trelloNotification: HEAD and GET are answered at once, every other method
\* goes to handleTrelloEvent
trelloNotification(r) ==
  IF r.method = "HEAD" THEN Outcome("responded", Send(200, ""), <<>>, <<>>)
  ELSE IF r.method = "GET"
  THEN Outcome("responded", Send(200, "Webhook validation successful"), <<>>, <<>>)
  ELSE handleTrelloEvent(r, DiscordWebhookUrl)

\* handleTrelloWebhookVerification: exported, called by no endpoint
handleTrelloWebhookVerification(r) ==
  IF r.method = "HEAD" THEN Send(200, "Webhook verification successful")
  ELSE Send(405, "Method not allowed")

(***************************************************************************)
(* Board payloads: every action type, each optional sub-object present or  *)
(* not.                                                                    *)
(***************************************************************************)
Empty == [k \in {} |-> ""]

Opt(present, key, value) == IF present THEN (key :> value) ELSE Empty

ActionTypes ==
  {"createCard", "updateCard", "commentCard", "addMemberToCard", "removeMemberFromCard",
   "addLabelToCard", "deleteCard", "createCheckItem", "updateCheckItem",
   "addAttachmentToCard", "addChecklistToCard", "updateCheckItemStateOnCard"}

CommonParts == {"model", "data", "card", "memberCreator"}

TypeParts(type) ==
  CASE type = "createCard" -> {"list"}
    [] type = "updateCard" -> {"listBefore", "listAfter", "old", "oldDue"}
    [] type = "commentCard" -> {"text"}
    [] type \in {"addMemberToCard", "removeMemberFromCard"} -> {"member"}
    [] type = "addLabelToCard" -> {"label"}
    [] OTHER -> {}

ActionData(parts) ==
  Opt("card" \in parts, "card", [name |-> "Test Card", due |-> "2025-05-01"])
  @@ Opt("list" \in parts, "list", [name |-> "To Do"])
  @@ Opt("listBefore" \in parts, "listBefore", [name |-> "To Do"])
  @@ Opt("listAfter" \in parts, "listAfter", [name |-> "Done"])
  @@ Opt("old" \in parts, "old",
         Opt("oldDue" \in parts, "due", "") @@ [name |-> "Old Card"])
  @@ Opt("text" \in parts, "text", "This is a test comment")
  @@ Opt("member" \in parts, "member", [name |-> "Added User"])
  @@ Opt("label" \in parts, "label", [name |-> "", color |-> "green"])

TrelloPayload(type, parts) ==
  Opt("model" \in parts, "model", [url |-> "https://trello.com/b/abc123/test-board"])
  @@ [action |->
        [type |-> type]
        @@ Opt("memberCreator" \in parts, "memberCreator", [fullName |-> "Test User"])
        @@ Opt("data" \in parts, "data", ActionData(parts))]

InvalidPayload == [invalid |-> "payload"]

TrelloPayloads ==
  UNION {{TrelloPayload(type, parts) :
            parts \in {p \in SUBSET (CommonParts \cup TypeParts(type)) :
                         "oldDue" \in p => "old" \in p}} :
         type \in ActionTypes}
  \cup {InvalidPayload,
        [action |-> [memberCreator |-> [fullName |-> "Test User"]]],
        [action |-> [type |-> ""]]}
  \cup {[TrelloPayload("commentCard", CommonParts \cup {"text"})
           EXCEPT !.action.data.text = t] : t \in Texts}

TrelloRequests ==
  {[endpoint |-> "trelloNotification", method |-> m, hasBody |-> TRUE, body |-> b] :
     m \in Methods, b \in TrelloPayloads}
  \cup {[endpoint |-> "trelloNotification", method |-> m, hasBody |-> FALSE,
         body |-> InvalidPayload] : m \in Methods}

(***************************************************************************)
(* registerBoard (board registration): the request with boardId alone is   *)
(* redirected to the board host's authorization page, or served the page   *)
(* that promotes the token from the URL fragment; the request with boardId *)
(* and token verifies the board (GET) and registers the webhook (POST).    *)
(***************************************************************************)
\* s.includes(sub)
Includes(s, sub) ==
  \E i \in 1..(Len(s) - Len(sub) + 1) : SubSeq(s, i, i + Len(sub) - 1) = sub

\* s.indexOf(c, from) for one character, positions counted from 1; 0 if none
IndexOf(s, c, from) ==
  LET at == {j \in from..Len(s) : SubSeq(s, j, j) = c}
  IN IF at = {} THEN 0 ELSE CHOOSE j \in at : \A k \in at : j <= k

\* the characters of the URLs used here that encodeURIComponent escapes
PercentCoded == {":", "/", "?", "=", "&", "#", "%", " ", "+", ","}

PercentCode(c) ==
  CASE c = ":" -> "%3A" [] c = "/" -> "%2F" [] c = "?" -> "%3F" [] c = "=" -> "%3D"
    [] c = "&" -> "%26" [] c = "#" -> "%23" [] c = "%" -> "%25" [] c = " " -> "%20"
    [] c = "+" -> "%2B" [] c = "," -> "%2C" [] OTHER -> c

RECURSIVE encodeFrom(_, _)
encodeFrom(s, i) ==
  IF i > Len(s) THEN "" ELSE PercentCode(SubSeq(s, i, i)) \o encodeFrom(s, i + 1)

\* (the argument is evaluated once and bound)
encodeURIComponent(s) == CHOOSE v \in {encodeFrom(t, 1) : t \in {s}} : TRUE

RECURSIVE decodeFrom(_, _)
decodeFrom(s, i) ==
  IF i > Len(s) THEN ""
  ELSE IF SubSeq(s, i, i) = "%" /\ i + 2 <= Len(s)
          /\ \E c \in PercentCoded : PercentCode(c) = SubSeq(s, i, i + 2)
  THEN (CHOOSE c \in PercentCoded : PercentCode(c) = SubSeq(s, i, i + 2))
         \o decodeFrom(s, i + 3)
  ELSE SubSeq(s, i, i) \o decodeFrom(s, i + 1)

\* (the argument is evaluated once and bound)
decodeURIComponent(s) == CHOOSE v \in {decodeFrom(t, 1) : t \in {s}} : TRUE

\* the query string of a URL: what lies between the first '?' and the fragment
QueryString(url) ==
  LET hash == IndexOf(url, "#", 1)
      path == IF hash = 0 THEN url ELSE SubSeq(url, 1, hash - 1)
      mark == IndexOf(path, "?", 1)
  IN IF mark = 0 THEN "" ELSE SubSeq(path, mark + 1, Len(path))

RECURSIVE ParamFrom(_, _, _)
ParamFrom(q, key, i) ==
  IF i > Len(q) THEN Absent
  ELSE CHOOSE v \in
         {LET seg == SubSeq(q, i, IF amp = 0 THEN Len(q) ELSE amp - 1)
              eq == IndexOf(seg, "=", 1)
              name == IF eq = 0 THEN seg ELSE SubSeq(seg, 1, eq - 1)
              val == IF eq = 0 THEN "" ELSE SubSeq(seg, eq + 1, Len(seg))
          IN IF decodeURIComponent(name) = key THEN decodeURIComponent(val)
             ELSE IF amp = 0 THEN Absent ELSE ParamFrom(q, key, amp + 1)
          : amp \in {IndexOf(q, "&", i)}} : TRUE

\* req.query[key] for a request to `url`: the first parameter of that name,
\* decoded; Absent when the URL has none
QueryParam(url, key) ==
  CHOOSE v \in {ParamFrom(q, key, 1) : q \in {QueryString(url)}} : TRUE

getTrelloApiUrl ==
  IF isTestMode THEN "http://localhost:5000/trello-mock-api" ELSE "https://api.trello.com/1"

\* trelloApiUrl.includes('localhost') ? trelloApiUrl : "https://trello.com"
trelloDomain ==
  IF Includes(getTrelloApiUrl, "localhost") THEN getTrelloApiUrl ELSE "https://trello.com"

AuthorizeReferer == "https://trello.com/1/authorize?expiration=never"

\* req.headers.referer && req.headers.referer.includes('trello.com/1/authorize')
FromAuthorizePage(r) ==
  r.referer # Absent /\ r.referer # "" /\ Includes(r.referer, "trello.com/1/authorize")

baseUrl(r) == r.protocol \o "://" \o r.hostname

redirectUri(r) == baseUrl(r) \o "/registerTrelloBoard?boardId=" \o r.boardId

\* the authorization URL, as the string sent in the Location header
authUrl(r, apiKey) ==
  trelloDomain \o "/1/authorize?expiration=never&scope=read,write&response_type=token&name="
    \o encodeURIComponent("Discord Notifications") \o "&key=" \o apiKey
    \o "&return_url=" \o encodeURIComponent(redirectUri(r))

Html(status, page, boardId, detail) ==
  [status |-> status, body |-> page, boardId |-> boardId, detail |-> detail]

\* the page that promotes the token: `detail` is the head of the URL its
\* script navigates to, "/registerTrelloBoard?boardId=" + boardId + "&token="
PromotionPage(r) ==
  Html(200, "Processing Trello Authorization", r.boardId,
       "/registerTrelloBoard?boardId=" \o r.boardId \o "&token=")

\* hash.match(/#token=([^&]+)/)[1] for a fragment that starts with '#token=';
\* Absent when there is no match
TokenInHash(hash) ==
  IF Len(hash) >= 8 /\ SubSeq(hash, 1, 7) = "#token=" /\ SubSeq(hash, 8, 8) # "&"
  THEN LET amp == IndexOf(hash, "&", 8)
       IN SubSeq(hash, 8, IF amp = 0 THEN Len(hash) ELSE amp - 1)
  ELSE Absent

\* window.location.href as the page's script sets it
PromotionHref(page, hash) == page.detail \o TokenInHash(hash)

BoardGet(r, apiKey) ==
  [to |-> "trello", method |-> "GET", url |-> getTrelloApiUrl \o "/boards/" \o r.boardId,
   params |-> [key |-> apiKey, token |-> r.token, fields |-> "name,id"]]

\* variant: the webhook is registered for the id of the request
WebhookPost_requestId(r, apiKey, fullBoardId) ==
  [to |-> "trello", method |-> "POST", url |-> getTrelloApiUrl \o "/webhooks",
   params |-> [key |-> apiKey, token |-> r.token],
   payload |-> [callbackURL |-> baseUrl(r) \o "/trelloNotification", idModel |-> r.boardId,
                description |-> "Discord notification webhook (created: " \o Now \o ")"]]

WebhookPost(r, apiKey, fullBoardId) ==
  [to |-> "trello", method |-> "POST", url |-> getTrelloApiUrl \o "/webhooks",
   params |-> [key |-> apiKey, token |-> r.token],
   payload |-> [callbackURL |-> baseUrl(r) \o "/trelloNotification", idModel |-> fullBoardId,
                description |-> "Discord notification webhook (created: " \o Now \o ")"]]

\* what the board host answers to the webhook registration: the webhook, with an id
WebhookCreated(call) ==
  [id |-> "webhook_1", callbackURL |-> call.payload.callbackURL,
   idModel |-> call.payload.idModel, description |-> call.payload.description,
   active |-> TRUE]

\* variant: the error page goes out with the default status
ErrorPage_status200(r, message) ==
  [status |-> 200, body |-> "Error Registering Trello Board", boardId |-> r.boardId,
   detail |-> message, retry |-> "/registerTrelloBoard?boardId=" \o r.boardId]

\* the error page: the message, the boardId that was given, and the link to
\* try again
ErrorPage(r, message) ==
  [status |-> 500, body |-> "Error Registering Trello Board", boardId |-> r.boardId,
   detail |-> message, retry |-> "/registerTrelloBoard?boardId=" \o r.boardId]

\* variant: a missing boardId is noticed only when no token came with it
MissingBoardId_onlyWithoutToken(r) ==
  (r.boardId = Absent \/ r.boardId = "") /\ r.token = Absent

\* !boardId
MissingBoardId(r) == r.boardId = Absent \/ r.boardId = ""

\* variant: the key is looked at only when the board host is about to be called
NoApiKey_onlyWithToken(r, apiKey) == apiKey = "" /\ r.token # Absent

\* !apiKey
NoApiKey(r, apiKey) == apiKey = ""

\* registerBoard up to its first await or its response
registerBoard(r) ==
  IF MissingBoardId(r)
  THEN Outcome("responded",
               [status |-> 400, body |-> "json",
                error |-> "Missing required parameter: boardId",
                usage |-> "Add ?boardId=YOUR_BOARD_ID to the URL"], <<>>, <<>>)
  ELSE IF NoApiKey(r, trelloApiKey)
  THEN Outcome("responded",
               [status |-> 500, body |-> "json",
                error |-> "Trello API key not configured",
                message |-> "The server administrator needs to set up a Trello API key first."],
               <<>>, <<>>)
  ELSE IF r.token = Absent \/ r.token = ""
  THEN IF FromAuthorizePage(r)
       THEN Outcome("responded", PromotionPage(r), <<>>, <<>>)
       ELSE Outcome("responded",
                    [status |-> 302, body |-> "redirect", location |-> authUrl(r, trelloApiKey)],
                    <<>>, <<>>)
  ELSE Outcome("reg_await_get", NoRes, <<BoardGet(r, trelloApiKey)>>, <<>>)

\* the board host has answered the board GET: `answer` is "ok" (the board,
\* with id fullBoardId), "noid" (a body without id) or "fail"
registerBoardVerified(r, answer, fullBoardId) ==
  IF answer = "ok"
  THEN Outcome("reg_await_post", NoRes, <<WebhookPost(r, trelloApiKey, fullBoardId)>>, <<>>)
  ELSE LET message ==
             "Board verification failed: " \o
             (IF answer = "noid" THEN "Couldn't retrieve the full board ID"
              ELSE "Request failed with status code 404") \o
             ". Make sure the board ID is correct and you have access to it."
       IN Outcome("responded", ErrorPage(r, message), <<>>,
                  <<"error: Error verifying board", "error: Error registering Trello webhook">>)

\* the board host has answered the webhook POST
registerBoardRegistered(r, call, ok) ==
  IF ok
  THEN Outcome("responded",
               [status |-> 200, body |-> "Success!", data |-> WebhookCreated(call)],
               <<>>, <<>>)
  ELSE Outcome("responded", ErrorPage(r, "Request failed with status code 400"), <<>>,
               <<"error: Error registering Trello webhook">>)

\* ids the board host may hold for the board: a full id that differs from the
\* id in the request (a short link), and the id of the request itself
FullBoardIds == {"5f8d0c1e9b7a", "b1"}

\* the request the server sees for `url`, with the query parsed
RequestFor(url, referer) ==
  [endpoint |-> "registerTrelloBoard", method |-> "GET",
   boardId |-> QueryParam(url, "boardId"), token |-> QueryParam(url, "token"),
   referer |-> referer, protocol |-> "https", hostname |-> "relay.example"]

\* URLs a client may open: without boardId, with an empty one, with the id
\* b1, with the id a&b (escaped as a client escapes it), each with and
\* without a token
RegistrationUrls ==
  {"/registerTrelloBoard" \o q :
     q \in {"", "?boardId=", "?token=t1", "?boardId=b1", "?boardId=a%26b",
            "?boardId=b1&token=t1", "?boardId=a%26b&token=t1"}}

RegistrationRequests ==
  {[RequestFor(u, f) EXCEPT !.method = m] :
     u \in RegistrationUrls, m \in {"GET", "POST"},
     f \in {Absent, AuthorizeReferer, "https://example.org/"}}

\* the token the board host issues on authorization
IssuedToken == "t1"

\* Referer headers a browser may send with the request that comes back from
\* the authorization page: none, the origin alone, the page's URL
ReturnReferers == {Absent, "https://trello.com/", AuthorizeReferer}

\* the registration the browser is in the middle of: the hop its last request
\* was, the boardId of the first request, and the fragment of the URL it shows
NoFlow == [hop |-> "none", boardId |-> Absent, hash |-> ""]

(***************************************************************************)
(* The state machine                                                       *)
(***************************************************************************)
Ready == pc = "idle"

Become(o) ==
  /\ pc' = o.pc
  /\ res' = o.res
  /\ calls' = calls \o o.calls
  /\ logs' = logs \o o.logs

Init ==
  /\ testMode \in BOOLEAN
  /\ githubSecret \in Secrets
  /\ trelloApiKey \in {"", "trello-key"}
  /\ req = NoReq
  /\ pc = "idle"
  /\ res = NoRes
  /\ calls = <<>>
  /\ answers = <<>>
  /\ logs = <<>>
  /\ browser = NoFlow
  /\ boardData = ""

\* a request arrives at githubNotification and runs to its first await or response
GithubNotification(r) ==
  /\ Ready
  /\ req' = r
  /\ LET o == githubNotification(r) IN
       /\ pc' = o.pc
       /\ res' = o.res
       /\ calls' = o.calls
       /\ logs' = o.logs
  /\ answers' = <<>>
  /\ UNCHANGED <<config, browser>>
  /\ boardData' = ""

\* the chat endpoint answers (ok) or the POST fails; handleWebhook resumes
GithubSendSettles(ok) ==
  /\ pc = "gh_await_send"
  /\ Become(handleWebhookResume(req, sendDiscordMessage(calls[Len(calls)], ok)))
  /\ answers' = Append(answers, IF ok THEN "ok" ELSE "failed")
  /\ UNCHANGED <<config, req, browser>>
  /\ UNCHANGED boardData

\* the response has gone out; nothing of the request is kept
Complete ==
  /\ pc = "responded"
  /\ pc' = "idle"
  /\ req' = NoReq
  /\ res' = NoRes
  /\ calls' = <<>>
  /\ answers' = <<>>
  /\ logs' = <<>>
  /\ browser' = NoFlow
  /\ UNCHANGED config
  /\ boardData' = ""

\* a request arrives at trelloNotification and runs to its first await or response
TrelloNotification(r) ==
  /\ Ready
  /\ req' = r
  /\ LET o == trelloNotification(r) IN
       /\ pc' = o.pc
       /\ res' = o.res
       /\ calls' = o.calls
       /\ logs' = o.logs
  /\ answers' = <<>>
  /\ UNCHANGED <<config, browser>>
  /\ boardData' = ""

\* the chat endpoint answers (ok) or the POST fails; handleTrelloEvent resumes
TrelloSendSettles(ok) ==
  /\ pc = "tr_await_send"
  /\ Become(handleTrelloEventResume(req, sendDiscordMessage(calls[Len(calls)], ok)))
  /\ answers' = Append(answers, IF ok THEN "ok" ELSE "failed")
  /\ UNCHANGED <<config, req, browser>>
  /\ UNCHANGED boardData

\* a request arrives at registerTrelloBoard and runs to its first await or response
RegisterTrelloBoard(r) ==
  /\ Ready
  /\ req' = r
  /\ LET o == registerBoard(r) IN
       /\ pc' = o.pc
       /\ res' = o.res
       /\ calls' = o.calls
       /\ logs' = o.logs
  /\ answers' = <<>>
  /\ browser' = [hop |-> "initial", boardId |-> r.boardId, hash |-> ""]
  /\ UNCHANGED config
  /\ boardData' = ""

\* the 302 is followed: the board host's authorization page reads return_url
\* and sends the browser back to it with a token, the test suite's board host
\* as one more query parameter, the real one in the URL fragment (which the
\* browser keeps and does not send); the request then runs as any other
AuthorizationReturns(referer) ==
  /\ pc = "responded"
  /\ req.endpoint = "registerTrelloBoard"
  /\ res.status = 302
  /\ \E returnUrl \in {QueryParam(res.location, "return_url")},
        mock \in {Includes(res.location, "/trello-mock-api/1/authorize")} :
       \E r \in {RequestFor(IF mock THEN returnUrl \o "&token=" \o IssuedToken
                                    ELSE returnUrl,
                            referer)} :
         \E o \in {registerBoard(r)} :
        /\ req' = r
        /\ browser' = [browser EXCEPT !.hop = "returned",
                                      !.hash = IF mock THEN "" ELSE "#token=" \o IssuedToken]
        /\ pc' = o.pc
        /\ res' = o.res
        /\ calls' = o.calls
        /\ logs' = o.logs
  /\ answers' = <<>>
  /\ UNCHANGED config
  /\ boardData' = ""

\* the script of the promotion page finds the token in the fragment and
\* navigates to the URL it builds; the request then runs as any other
PromotionPageRuns ==
  /\ pc = "responded"
  /\ req.endpoint = "registerTrelloBoard"
  /\ res.body = "Processing Trello Authorization"
  /\ TokenInHash(browser.hash) # Absent
  /\ \E r \in {RequestFor(PromotionHref(res, browser.hash), redirectUri(req))} :
       \E o \in {registerBoard(r)} :
        /\ req' = r
        /\ browser' = [browser EXCEPT !.hop = "promoted", !.hash = ""]
        /\ pc' = o.pc
        /\ res' = o.res
        /\ calls' = o.calls
        /\ logs' = o.logs
  /\ answers' = <<>>
  /\ UNCHANGED config
  /\ boardData' = ""

\* the board host answers the board GET; registerBoard resumes
BoardGetSettles(answer, fullBoardId) ==
  /\ pc = "reg_await_get"
  /\ Become(registerBoardVerified(req, answer, fullBoardId))
  /\ answers' = Append(answers, IF answer = "ok" THEN "ok" ELSE "failed")
  /\ UNCHANGED <<config, req, browser>>
  /\ boardData' = IF answer = "ok" THEN fullBoardId ELSE ""

\* the board host answers the webhook POST; registerBoard resumes
WebhookPostSettles(ok) ==
  /\ pc = "reg_await_post"
  /\ Become(registerBoardRegistered(req, calls[Len(calls)], ok))
  /\ answers' = Append(answers, IF ok THEN "ok" ELSE "failed")
  /\ UNCHANGED <<config, req, browser>>
  /\ UNCHANGED boardData

Next ==
  \/ Ready /\ \E r \in RegistrationRequests : RegisterTrelloBoard(r)
  \/ \E answer \in {"ok", "noid", "fail"}, id \in FullBoardIds : BoardGetSettles(answer, id)
  \/ \E ok \in BOOLEAN : WebhookPostSettles(ok)
  \/ \E referer \in ReturnReferers : AuthorizationReturns(referer)
  \/ PromotionPageRuns
  \/ Ready /\ \E r \in GithubRequests : GithubNotification(r)
  \/ \E ok \in BOOLEAN : GithubSendSettles(ok)
  \/ Ready /\ \E r \in TrelloRequests : TrelloNotification(r)
  \/ \E ok \in BOOLEAN : TrelloSendSettles(ok)
  \/ Complete

Spec == Init /\ [][Next]_vars

\* the browser has a next hop to make: a redirect to follow, or the promotion
\* page's script to run
FlowContinues ==
  /\ pc = "responded"
  /\ req.endpoint = "registerTrelloBoard"
  /\ \/ res.status = 302
     \/ res.body = "Processing Trello Authorization" /\ TokenInHash(browser.hash) # Absent

\* the response has gone out and the browser has no further hop to make
FlowComplete == ~FlowContinues /\ Complete

\* the registration endpoint alone, with a user who does not leave a
\* registration half way
FlowNext ==
  \/ Ready /\ \E r \in RegistrationRequests : RegisterTrelloBoard(r)
  \/ \E answer \in {"ok", "noid", "fail"}, id \in FullBoardIds : BoardGetSettles(answer, id)
  \/ \E ok \in BOOLEAN : WebhookPostSettles(ok)
  \/ \E referer \in ReturnReferers : AuthorizationReturns(referer)
  \/ PromotionPageRuns
  \/ FlowComplete

\* the user always authorizes, the browser always makes its next hop, and the
\* board host always answers
FlowSpec ==
  /\ Init /\ [][FlowNext]_vars
  /\ WF_vars(\E referer \in ReturnReferers : AuthorizationReturns(referer))
  /\ WF_vars(PromotionPageRuns)
  /\ WF_vars(\E answer \in {"ok", "noid", "fail"}, id \in FullBoardIds :
               BoardGetSettles(answer, id))
  /\ WF_vars(\E ok \in BOOLEAN : WebhookPostSettles(ok))

(***************************************************************************)
(* Properties                                                              *)
(***************************************************************************)
OnGithub == req.endpoint = "githubNotification"

OnTrello == req.endpoint = "trelloNotification"

OnRegistration == req.endpoint = "registerTrelloBoard"

Responded == pc = "responded"

\* a POST to the source-control endpoint whose signature is verified
VerifiedPost == OnGithub /\ req.method = "POST" /\ githubSecret # "" /\ ~testMode

\* C1: with a secret configured and test mode off, every POST whose signature
\* header differs from the expected 'sha256=<hex HMAC>' digest (any value, of
\* any length, or no header) is answered 403 and no card is sent.
C1_BadSignatureIs403 ==
  (Responded /\ VerifiedPost
     /\ req.signature # hmacDigest(githubSecret, SignedBytes(req)))
  => (res.status = 403 /\ calls = <<>>)

\* C2: with a secret configured and test mode off, a POST whose signature
\* header is 'sha256=' + hex HMAC-SHA256 of the exact raw body bytes is never
\* answered 403, whatever the byte-level formatting of the body.
C2_RawBodySignaturePasses ==
  (VerifiedPost /\ req.signature = createSignature(req.rawBody, githubSecret))
  => res.status # 403

\* C3: in test mode, when the POST to the chat webhook fails, the failure is
\* swallowed and the calling handler answers 200.
C3_TestModeFailureAnswers200 ==
  (Responded /\ testMode /\ (OnGithub \/ OnTrello) /\ answers = <<"failed">>)
  => res.status = 200

\* C4: outside test mode, when the POST to the chat webhook fails, the handler
\* answers 500 and exactly one delivery attempt was made.
C4_FailureIs500AfterOneAttempt ==
  (Responded /\ ~testMode /\ (OnGithub \/ OnTrello) /\ Len(answers) > 0
     /\ answers[Len(answers)] = "failed")
  => (res.status = 500 /\ Len(calls) = 1 /\ calls[1].to = "discord")

C4_Witness ==
  Responded /\ ~testMode /\ OnTrello /\ answers = <<"failed">> /\ res.status = 500

\* C5 as stated: every inbound call to any of the three endpoints performs at
\* most one outbound network call.
C5_AtMostOneOutboundCall == Len(calls) <= 1

\* C5 as amended: a source-control or board event performs at most one outbound
\* call (the chat POST); a registration request performs at most two, the board
\* GET and then the webhook POST, and none unless boardId and token are present.
C5_OutboundCallsBounded ==
  /\ (OnGithub \/ OnTrello) => Len(calls) <= 1
  /\ OnRegistration =>
       /\ Len(calls) <= 2
       /\ Len(calls) >= 1 =>
            (calls[1].method = "GET" /\ req.boardId # Absent /\ req.token # Absent)
       /\ Len(calls) = 2 => calls[2].method = "POST"

C5_Witness ==
  Responded /\ OnRegistration /\ Len(calls) = 2 /\ res.status = 200

\* C6: an event on the source-control or board endpoint leads to at most one
\* card POSTed to the chat webhook, to none when the event type is unsupported
\* or filtered, and each envelope sent holds exactly one embed.
C6_AtMostOneCard ==
  (OnGithub \/ OnTrello) =>
    /\ Len(calls) <= 1
    /\ \A i \in 1..Len(calls) :
         calls[i].to = "discord" /\ Len(calls[i].payload.embeds) = 1
    /\ (OnGithub /\ req.eventType \notin {"push", "pull_request", "issues", "issue_comment"})
         => calls = <<>>
    /\ (OnTrello /\ req.hasBody /\ Has(req.body, "action") /\ Has(req.body.action, "type")
          /\ req.body.action.type \in
               {"createCheckItem", "updateCheckItem", "addAttachmentToCard",
                "addChecklistToCard", "updateCheckItemStateOnCard"})
         => calls = <<>>

C6_Witness ==
  Responded /\ OnTrello /\ Len(calls) = 1 /\ res.status = 200
    /\ Len(calls[1].payload.embeds) = 1

\* the request carries a board action of one of the five skipped types
FilteredRequest ==
  OnTrello /\ req.hasBody /\ Has(req.body, "action") /\ Has(req.body.action, "type")
    /\ req.body.action.type \in
         {"createCheckItem", "updateCheckItem", "addAttachmentToCard",
          "addChecklistToCard", "updateCheckItemStateOnCard"}

\* C7: for the five skipped board action types formatTrelloMessage returns
\* null and the request is answered 200 without a call to the chat webhook.
C7_FilteredTypesNotRelayed ==
  FilteredRequest =>
    /\ formatTrelloMessage(req.body) = TrelloNull
    /\ Responded /\ res.status = 200 /\ calls = <<>>

C7_Witness ==
  FilteredRequest /\ req.method = "POST" /\ Responded
    /\ req.body.action.type = "updateCheckItemStateOnCard"
    /\ res.body = "Trello event filtered (notification not sent)"

C9_GetRejected405 ==
  (OnTrello /\ req.method = "GET" /\ Responded) => res.status = 405

\* C10: every request to the source-control endpoint whose method is not POST
\* is answered 405 with no outbound call, whatever its headers and body.
C10_NonPostIs405 ==
  (OnGithub /\ req.method # "POST") =>
    (Responded /\ res.status = 405 /\ calls = <<>>)

C10_Witness ==
  OnGithub /\ req.method = "PUT" /\ req.eventType = "push" /\ githubSecret # ""
    /\ ~testMode /\ ~req.signature.present /\ Responded /\ res.status = 405

\* the signature check is off, or the header equals the digest the handler computes
PassesVerification ==
  githubSecret = "" \/ testMode
    \/ req.signature = hmacDigest(githubSecret, SignedBytes(req))

\* the payload holds the properties that the formatter's branch for the event
\* type reads
PayloadFits(eventType, payload) ==
  /\ Has(payload, "repository")
  /\ eventType = "push" => Has(payload, "ref") /\ Has(payload, "commits")
  /\ eventType = "pull_request" => Has(payload, "pull_request")
  /\ eventType = "issues" => Has(payload, "issue")
  /\ eventType = "issue_comment" => Has(payload, "issue") /\ Has(payload, "comment")

RelayedEvent == req.eventType \in {"push", "pull_request", "issues", "issue_comment"}

\* C11: a POST to the source-control endpoint
\* that passes verification and names an event type outside {push,
\* pull_request, issues, issue_comment} is answered 202 with nothing sent to
\* the chat webhook, and one that names a type inside the set is formatted
\* and relayed.
C11_SupportedAlwaysRelayed ==
  (Responded /\ OnGithub /\ req.method = "POST" /\ PassesVerification
     /\ req.eventType # Absent)
  => IF RelayedEvent
     THEN Len(calls) = 1 /\ calls[1].to = "discord"
     ELSE res.status = 202 /\ calls = <<>>

\* C12: a POST to the source-control endpoint without an x-github-event
\* header is answered 400 and no card is sent, whenever the signature check
\* is off or passes.
C12_NoEventTypeIs400 ==
  (OnGithub /\ req.method = "POST" /\ PassesVerification /\ req.eventType = Absent)
  => (Responded /\ res.status = 400 /\ res.body = "No event type specified"
        /\ calls = <<>>)

C12_Witness ==
  /\ OnGithub /\ req.method = "POST" /\ githubSecret # "" /\ ~testMode
  /\ req.signature = hmacDigest(githubSecret, SignedBytes(req))
  /\ req.eventType = Absent /\ Responded /\ res.status = 400

\* a POST for a relayed event type whose signature header is missing or is
\* not the digest the handler computes
UnsignedRelayedPost ==
  /\ OnGithub /\ req.method = "POST" /\ RelayedEvent
  /\ req.signature # hmacDigest(githubSecret, SignedBytes(req))

\* C13 as the specification words it: with an empty secret or in test mode, a
\* POST with an invalid or absent signature header and a supported event type
\* is answered 200.
C13_UnverifiedPostAnswered200 ==
  (Responded /\ UnsignedRelayedPost /\ (githubSecret = "" \/ testMode))
  => res.status = 200

\* C13: the signature is checked iff a non-empty secret is configured and test
\* mode is off.  With an empty secret or in test mode a POST with an invalid
\* or absent signature header and a supported event type is never answered
\* 403, its card is sent when the payload holds the properties the formatter
\* reads, and it is answered 200 when that send succeeds; with a secret and
\* test mode off such a POST is not processed: nothing is sent and the answer
\* is not 200.
C13_VerificationIffSecretAndNotTestMode ==
  UnsignedRelayedPost =>
    IF githubSecret = "" \/ testMode
    THEN /\ res.status # 403
         /\ PayloadFits(req.eventType, req.rawBody.value)
              => Len(calls) = 1 /\ calls[1].to = "discord"
         /\ (Responded /\ answers = <<"ok">>) => res.status = 200
    ELSE Responded /\ calls = <<>> /\ res.status # 200

C13_Witness ==
  /\ UnsignedRelayedPost /\ testMode /\ githubSecret # ""
  /\ req.signature.present /\ req.signature.len = InvalidHeaderLen
  /\ req.eventType = "push" /\ Responded /\ res.status = 200

\* a request to the registration endpoint that names a board
NamesBoard == OnRegistration /\ req.boardId # Absent /\ req.boardId # ""

\* C14: a request to the registration endpoint without a boardId query
\* parameter is answered 400 with a JSON error that contains 'Missing required
\* parameter', with or without a token and with or without an API key, and no
\* redirect and no outbound call is made.
C14_MissingBoardIdIs400 ==
  (OnRegistration /\ req.boardId = Absent)
  => (Responded /\ res.status = 400 /\ res.body = "json"
        /\ Includes(res.error, "Missing required parameter") /\ calls = <<>>)

C14_Witness ==
  /\ OnRegistration /\ req.boardId = Absent /\ req.token = "t1"
  /\ trelloApiKey = "" /\ Responded /\ res.status = 400

\* C15: a request to the registration endpoint with a boardId while no API key
\* is configured is answered 500 with a JSON error that tells the
\* administrator to set the key up; it is never redirected and the board host
\* is never called, with or without a token.
C15_NoApiKeyIs500 ==
  (NamesBoard /\ trelloApiKey = "")
  => (Responded /\ res.status = 500 /\ res.body = "json"
        /\ Includes(res.error, "API key not configured")
        /\ Includes(res.message, "administrator") /\ calls = <<>>)

C15_Witness ==
  /\ NamesBoard /\ trelloApiKey = "" /\ req.token = Absent
  /\ req.referer = AuthorizeReferer /\ Responded /\ res.status = 500

\* the board host's origin: the test suite's board host in test mode
BoardHost == IF testMode THEN "http://localhost:5000/trello-mock-api" ELSE "https://trello.com"

\* C16: every request to the registration endpoint with a boardId, no token
\* and a configured API key is answered with a 302 whose Location is on the
\* board host, contains '/1/authorize', and carries a return_url that leads
\* back to the registration endpoint with the same boardId.
C16_NoTokenIsRedirected ==
  (Responded /\ NamesBoard /\ req.token = Absent /\ trelloApiKey # "")
  => /\ res.status = 302
     /\ SubSeq(res.location, 1, Len(BoardHost)) = BoardHost
     /\ Includes(res.location, "/1/authorize")
     /\ LET back == QueryParam(res.location, "return_url")
        IN /\ Includes(back, baseUrl(req) \o "/registerTrelloBoard?")
           /\ QueryParam(back, "boardId") = req.boardId

\* the request that the authorization page sent back, its token in the fragment
FragmentReturn ==
  OnRegistration /\ browser.hop = "returned" /\ TokenInHash(browser.hash) # Absent

\* C17: whenever the authorization page sends the user back with the token in
\* the URL fragment, the promotion page is served (not a new redirect), and
\* the request its script makes carries the token as a query parameter
\* together with the boardId of the first request.
C17_FragmentReturnIsPromoted ==
  FragmentReturn
  => /\ Responded /\ res.status = 200 /\ res.body = "Processing Trello Authorization"
     /\ LET next == PromotionHref(res, browser.hash)
        IN /\ QueryParam(next, "token") = IssuedToken
           /\ QueryParam(next, "boardId") = browser.boardId

\* C18: in every hop of a registration (the first request, the return_url of
\* the redirect, the request that comes back, the promotion page's request)
\* the boardId in the URL parameters is the boardId of the first request.
C18_BoardIdRoundTrips ==
  (OnRegistration /\ browser.hop # "none")
  => /\ req.boardId = browser.boardId
     /\ (Responded /\ res.status = 302)
          => QueryParam(QueryParam(res.location, "return_url"), "boardId") = browser.boardId
     /\ (Responded /\ res.body = "Processing Trello Authorization"
           /\ TokenInHash(browser.hash) # Absent)
          => QueryParam(PromotionHref(res, browser.hash), "boardId") = browser.boardId

\* the text of the success page names `id`: the page prints the registration
\* response, and nothing else of the request
PageNames(data, id) ==
  \E f \in {"id", "callbackURL", "idModel", "description"} : Includes(data[f], id)

\* C19: a request with boardId b and a token, for which the board host
\* confirms the board and accepts the webhook, is answered 200 with a page
\* that holds 'Success!', the registration response (callbackURL, idModel)
\* and the board id b of the request.
C19_SuccessPageNamesBoard ==
  (Responded /\ NamesBoard /\ req.token # Absent /\ answers = <<"ok", "ok">>)
  => /\ res.status = 200 /\ res.body = "Success!"
     /\ res.data.callbackURL = baseUrl(req) \o "/trelloNotification"
     /\ Has(res.data, "idModel")
     /\ PageNames(res.data, req.boardId)

\* C20: when the board verification or the webhook registration fails, the
\* answer is the error page, which reports the failure message, names the
\* boardId that was tried, and links back to the registration endpoint with
\* that same boardId.
C20_FailurePageOffersRetry ==
  (Responded /\ NamesBoard /\ Len(answers) > 0 /\ answers[Len(answers)] = "failed")
  => /\ res.body = "Error Registering Trello Board"
     /\ res.detail # "" /\ res.boardId = req.boardId
     /\ SubSeq(res.retry, 1, 21) = "/registerTrelloBoard?"
     /\ QueryParam(res.retry, "boardId") = req.boardId

\* a registration request in step 3: boardId and token present, key configured
StepThree == NamesBoard /\ req.token # Absent /\ req.token # "" /\ trelloApiKey # ""

\* C21 as the specification words it: once a registration request carries
\* boardId and token and the API key is configured, the response is a page
\* with status 200 both when registration completes and when it fails.
C21_BothOutcomesAre200 ==
  (Responded /\ StepThree) => res.status = 200

\* C21: once a registration request carries boardId and token and the API key
\* is configured, the response is an HTML page in both outcomes: the success
\* page with status 200 when registration completes, the error page with
\* status 500 when the board verification or the webhook registration fails.
C21_SuccessIs200FailureIs500 ==
  (Responded /\ StepThree)
  => IF answers = <<"ok", "ok">>
     THEN res.status = 200 /\ res.body = "Success!"
     ELSE res.status = 500 /\ res.body = "Error Registering Trello Board"

C21_Witness ==
  /\ Responded /\ StepThree /\ answers = <<"ok", "failed">>
  /\ res.status = 500 /\ res.body = "Error Registering Trello Board"

\* the card of the request in progress, once formatted and handed to the sender
CardSent == calls[1].payload.embeds[1]

\* a push event whose payload was formatted
PushFormatted ==
  /\ OnGithub /\ req.eventType = "push" /\ Len(calls) = 1
  /\ Has(req.rawBody.value, "commits")

\* C22: for every push payload with N commits the card has exactly min(N,5)
\* commit fields, for the first min(N,5) commits in order, each named by the
\* first 7 characters of the commit id; when N > 5 there is exactly one more
\* field, which states N-5 more commits, and when N <= 5 there is none.
C22_PushListsFiveCommits ==
  PushFormatted =>
    LET commits == req.rawBody.value.commits
        n == Len(commits)
        shown == IF n < 5 THEN n ELSE 5
        fields == CardSent.fields
    IN /\ Len(fields) = shown + (IF n > 5 THEN 1 ELSE 0)
       /\ \A i \in 1..shown :
            /\ fields[i].name = SubSeq(commits[i].id, 1, 7)
            /\ Includes(fields[i].value, commits[i].url)
       /\ n > 5 => fields[6].value = ToString(n - 5) \o " more commits not shown"

C22_Witness ==
  /\ PushFormatted /\ Len(req.rawBody.value.commits) = 6
  /\ Len(CardSent.fields) = 6 /\ CardSent.fields[6].value = "1 more commits not shown"

\* what C23 asks of the fields a text adds to the `base` fields of a card:
\* none for an absent or empty text, else one field named `name` that holds
\* the text, cut to 997 characters and '...' when it is longer than 1000
RendersText(fields, base, name, obj, key) ==
  IF ~Has(obj, key) \/ obj[key] = ""
  THEN Len(fields) = base
  ELSE /\ Len(fields) = base + 1
       /\ fields[base + 1].name = name
       /\ fields[base + 1].value =
            (IF Len(obj[key]) > 1000 THEN SubSeq(obj[key], 1, 997) \o "..." ELSE obj[key])
       /\ Len(fields[base + 1].value) <= 1000

\* a pull_request, issues or issue_comment event, or a board comment, whose
\* card was formatted
TextFormatted ==
  /\ Len(calls) = 1
  /\ \/ OnGithub /\ req.eventType \in {"pull_request", "issues", "issue_comment"}
     \/ OnTrello /\ Has(req.body, "action") /\ Has(req.body.action, "type")
          /\ req.body.action.type = "commentCard"

\* C23: a pull_request body, issue body, issue_comment body or board comment
\* text longer than 1000 characters is rendered as its first 997 characters
\* followed by '...' (1000 characters); one of 1000 characters or fewer is
\* rendered unchanged; an absent or empty one adds no field.
C23_LongTextCutTo997 ==
  TextFormatted =>
    IF OnTrello
    THEN RendersText(CardSent.fields, 0, "Comment", req.body.action.data, "text")
    ELSE LET payload == req.rawBody.value IN
      CASE req.eventType = "pull_request" ->
             RendersText(CardSent.fields, 2, "Description", payload.pull_request, "body")
        [] req.eventType = "issues" ->
             RendersText(CardSent.fields, 0, "Description", payload.issue, "body")
        [] req.eventType = "issue_comment" ->
             RendersText(CardSent.fields, 0, "Comment", payload.comment, "body")

C23_Witness ==
  /\ TextFormatted /\ OnGithub /\ req.eventType = "issue_comment"
  /\ Has(req.rawBody.value.comment, "body")
  /\ Len(req.rawBody.value.comment.body) = 1001
  /\ Len(CardSent.fields[1].value) = 1000
  /\ SubSeq(CardSent.fields[1].value, 995, 1000) = "456..."

\* a POST to the board-events endpoint whose body reaches formatTrelloMessage
BoardEventFormatted ==
  OnTrello /\ req.method = "POST" /\ req.hasBody /\ (testMode \/ Has(req.body, "action"))

\* the number of a card's fields with the given name
FieldsNamed(card, name) == Cardinality({i \in 1..Len(card.fields) : card.fields[i].name = name})

\* C24: formatTrelloMessage never throws, whatever the payload and the action
\* type: list, label, comment text and the nested objects a branch reads
\* (card, member, model) may each be absent, and an absent list, label or
\* text is left out of the card's fields.
C24_FormatTrelloNeverThrows ==
  BoardEventFormatted =>
    LET formatted == formatTrelloMessage(req.body) IN
    /\ ~formatted.throws
    /\ (~formatted.filtered /\ Has(req.body, "action") /\ Has(req.body.action, "data")) =>
         LET d == req.body.action.data IN
         /\ ~Has(d, "list") => FieldsNamed(formatted.card, "List") = 0
         /\ ~Has(d, "label") => FieldsNamed(formatted.card, "Label") = 0
         /\ ~Has(d, "text") => FieldsNamed(formatted.card, "Comment") = 0

\* C25: formatGitHubMessage never fails, whatever the payload and the event
\* type: for a type outside {push, pull_request, issues, issue_comment} it
\* returns the generic card, whose title holds the repository name and the
\* event type, and for the four supported types it returns a card.
C25_FormatGitHubNeverFails ==
  (OnGithub /\ req.method = "POST" /\ req.eventType # Absent) =>
    LET formatted == formatGitHubMessage(req.rawBody.value, req.eventType) IN
    /\ ~formatted.throws
    /\ ~RelayedEvent =>
         /\ Includes(formatted.card.title, req.rawBody.value.repository.name)
         /\ Includes(formatted.card.title, req.eventType)

\* a POST to the board-events endpoint whose body has no action object
ActionlessPost ==
  OnTrello /\ req.method = "POST" /\ req.hasBody /\ ~Has(req.body, "action")

\* C26: on a POST to the board-events endpoint the payload-shape check is
\* enforced exactly when test mode is off: outside test mode a body without
\* an action object is answered 400 and nothing is relayed; in test mode the
\* same body is formatted as the 'Unrecognized Trello event' card, relayed,
\* and answered 200.
C26_ShapeCheckedIffNotTestMode ==
  (Responded /\ ActionlessPost) =>
    IF ~testMode
    THEN res.status = 400 /\ calls = <<>>
    ELSE /\ Len(calls) = 1 /\ calls[1].to = "discord"
         /\ CardSent.description = "Unrecognized Trello event"
         /\ res.status = 200

\* an updateCard action whose card was formatted
UpdateCardFormatted ==
  /\ OnTrello /\ req.method = "POST" /\ Len(calls) = 1
  /\ Has(req.body, "action") /\ Has(req.body.action, "type")
  /\ req.body.action.type = "updateCard"

\* C27: for every updateCard action exactly one card is chosen, by priority:
\* 'Card Moved' when listBefore and listAfter are both present (also when a
\* due-date change is present), otherwise 'Due Date Changed' when the old
\* data has a due property, otherwise 'Card Updated'.
C27_UpdateCardPriority ==
  UpdateCardFormatted =>
    LET d == req.body.action.data IN
    /\ Len(calls[1].payload.embeds) = 1
    /\ CardSent.title =
         (IF Has(d, "listBefore") /\ Has(d, "listAfter") THEN "Card Moved"
          ELSE IF Has(d, "old") /\ Has(d.old, "due") THEN "Due Date Changed"
          ELSE "Card Updated")
    /\ CardSent.title = "Card Moved" =>
         /\ Len(CardSent.fields) = 2
         /\ CardSent.fields[1].value = d.listBefore.name
         /\ CardSent.fields[2].value = d.listAfter.name

C27_Witness ==
  /\ UpdateCardFormatted
  /\ Has(req.body.action.data, "listBefore") /\ Has(req.body.action.data, "listAfter")
  /\ Has(req.body.action.data, "old") /\ Has(req.body.action.data.old, "due")
  /\ CardSent.title = "Card Moved"

\* the request ended in an error response
ErrorResponse == Responded /\ res.status \in {400, 403, 405, 500}

\* console.error was called while the request was handled, with a text that
\* holds `context`
ErrorLogged(context) ==
  \E i \in 1..Len(logs) : SubSeq(logs[i], 1, 6) = "error:" /\ Includes(logs[i], context)

\* the registration endpoint's answer that the API key is not configured
KeyNotConfigured == OnRegistration /\ res.status = 500 /\ res.body = "json"

\* C28 as the specification words it: for every request that ends in an
\* error response (400, 403, 405 or 500) on any of the three endpoints, an
\* error log entry has been written when the response is sent.
C28_EveryErrorLogged ==
  ErrorResponse => ErrorLogged("")

\* C28: for every request that ends in a 500 response other than the
\* registration endpoint's 'API key not configured' answer, an error log
\* entry that names the operation has been written when the response is
\* sent.  The 400 and 405 responses and the 'API key not configured' answer
\* are sent without an error log entry, and a 403 is preceded by one exactly
\* when the signature header is missing.
C28_CaughtErrorsLogged ==
  ErrorResponse =>
    IF res.status = 500 /\ ~KeyNotConfigured
    THEN \/ OnGithub /\ (ErrorLogged("GitHub webhook") \/ ErrorLogged(" event"))
         \/ OnTrello /\ ErrorLogged("Trello event")
         \/ OnRegistration /\ ErrorLogged("registering Trello webhook")
    ELSE IF res.status = 403
    THEN ErrorLogged("No signature found") <=> ~req.signature.present
    ELSE ~ErrorLogged("")

C28_Witness ==
  /\ ErrorResponse /\ OnGithub /\ res.status = 500 /\ calls = <<>>
  /\ req.signature.present /\ req.signature.len = InvalidHeaderLen
  /\ ErrorLogged("GitHub webhook")

\* the calls of the request in progress that register a webhook
WebhookCalls == {i \in 1..Len(calls) : calls[i].to = "trello" /\ calls[i].method = "POST"}

\* C29: in step 3 of a registration the webhook-registration POST is issued
\* only after the board-verification GET has succeeded and returned an id;
\* when the verification fails or returns no id no webhook is registered;
\* and the webhook that is registered targets the id the board host returned,
\* with the callback URL '<this host>/trelloNotification'.
C29_WebhookOnlyAfterVerifiedBoard ==
  OnRegistration =>
    /\ \A i \in WebhookCalls :
         /\ i = 2 /\ calls[1].to = "trello" /\ calls[1].method = "GET"
         /\ Includes(calls[1].url, "/boards/" \o req.boardId)
         /\ answers[1] = "ok" /\ boardData # ""
         /\ calls[i].payload.idModel = boardData
         /\ calls[i].payload.callbackURL = "https://relay.example/trelloNotification"
         /\ Includes(calls[i].payload.description, "created: ")
    /\ (Len(answers) > 0 /\ answers[1] = "failed") => WebhookCalls = {}
    /\ pc = "reg_await_get" => WebhookCalls = {}

C29_Witness ==
  /\ OnRegistration /\ pc = "reg_await_post" /\ WebhookCalls = {2}
  /\ boardData = "5f8d0c1e9b7a" /\ req.boardId = "b1"
  /\ calls[2].payload.idModel = "5f8d0c1e9b7a"

\* the first request of a registration, with a boardId and a configured key,
\* has been redirected to the authorization page
FlowStarted ==
  /\ NamesBoard /\ trelloApiKey # "" /\ browser.hop = "initial"
  /\ Responded /\ res.status = 302

\* the success page or the error page of step 3 has been served
FinalPage ==
  /\ OnRegistration /\ Responded
  /\ res.body \in {"Success!", "Error Registering Trello Board"}

\* C30: from a first registration request with a boardId and a configured API
\* key, when the user always authorizes and the board host always answers,
\* the flow reaches the final success or error page; it does not go round
\* between the registration endpoint and the authorization page for ever,
\* whether the token comes back in the query or in the fragment, and with or
\* without a Referer header.
C30_FlowReachesFinalPage == FlowStarted ~> FinalPage

====
